---- MODULE Spec2Model ----
(***************************************************************************)
(* A model of QSerialDevice (src/common/QSerialDevice.py): a line-oriented *)
(* session on a serial port.  The session probes the ports of the host,    *)
(* keeps the first one that opens and identifies, and then exchanges       *)
(* eol-terminated messages with the device, either by blocking calls       *)
(* (sync) or through the readyRead notification (async).                   *)
(*                                                                         *)
(* Text is a sequence of characters, the channel carries sequences of      *)
(* bytes (numbers 0..255); encode() and decode() convert between the two.  *)
(***************************************************************************)
EXTENDS Integers, Sequences, FiniteSets, TLC

VARIABLES
    pc,        \* "new" (before __init__), "failed" (__init__ raised), "idle",
               \* "getData" (inside getData), "aborted" (a slot raised)
    catalog,   \* QSerialPortInfo.availablePorts(): the descriptors of the host
    portArg,   \* the constructor's port argument: an index of catalog, 0 for None
    eol,       \* self.eol, a text
    sync,      \* self._sync (before __init__: the constructor's sync argument)
    bindings,  \* number of connections of readyRead to self.receive
    isOpen,    \* QSerialPort.isOpen()
    port,      \* the descriptor given to setPort(), 0 before any
    buffer,    \* self.buffer, a byte sequence
    avail,     \* bytes in the port's read buffer (bytesAvailable / readAll)
    wire,      \* bytes the device has sent that have not arrived yet
    probeLog,  \* what setup() did to the ports, in order
    op,        \* the latest step: its name, its text argument, who called getData
    trace,     \* the channel operations of the current (or latest) call, in order
    entry,     \* self.buffer when the latest getData or receive was entered
    emitted,   \* the dataReady payloads the latest step emitted, in order
    ret        \* what the latest call returned (or raised)

vars == <<pc, catalog, portArg, eol, sync, bindings, isOpen, port, buffer, avail,
          wire, probeLog, op, trace, entry, emitted, ret>>

----------------------------------------------------------------------------
(* Bounds of the model *)

MaxPorts == 3   \* longest catalog of the discovery specification
MaxBytes == 3   \* most bytes held in wire, avail and buffer together

----------------------------------------------------------------------------
(* Characters, bytes and the conversions between them *)

Char == {"a", "\r", ";"}

\* str.encode() of one character (UTF-8 of an ASCII character is its code)
Ord(c) == CASE c = "a" -> 97 [] c = "\r" -> 13 [] c = ";" -> 59

\* the character an ASCII byte decodes to
Chr(b) == CASE b = 97 -> "a" [] b = 13 -> "\r" [] b = 59 -> ";" [] b = 120 -> "x"
            [] OTHER -> "?"

\* bytes the device can send: 'a', CR, ';' and 0xFF, which is no valid UTF-8
DeviceBytes == {97, 13, 59, 255}

Encode(text) == [i \in 1..Len(text) |-> Ord(text[i])]

\* bytes.decode(): raises UnicodeDecodeError on a byte that is not valid UTF-8
DecodeOk(bytes) == \A i \in 1..Len(bytes) : bytes[i] < 128
Decode(bytes) == [i \in 1..Len(bytes) |-> Chr(bytes[i])]

\* QByteArray.contains(pat)
Contains(buf, pat) ==
    \E i \in 0..(Len(buf) - Len(pat)) : SubSeq(buf, i + 1, i + Len(pat)) = pat

\* the bytes QByteArray.trimmed() removes from both ends
IsSpace(b) == b \in {9, 10, 11, 12, 13, 32}

\* QByteArray.trimmed()
Trimmed(buf) ==
    LET keep == {i \in 1..Len(buf) : ~IsSpace(buf[i])}
    IN  IF keep = {} THEN <<>>
        ELSE LET lo == CHOOSE i \in keep : \A j \in keep : i <= j
                 hi == CHOOSE i \in keep : \A j \in keep : j <= i
             IN  SubSeq(buf, lo, hi)

\* values of ret
NoValue == [kind |-> "none", val |-> <<>>]
Str(text) == [kind |-> "str", val |-> text]
Raised(what) == [kind |-> "raise", val |-> <<what>>]

----------------------------------------------------------------------------
(* Discovery: setup() and find() *)

\* A descriptor: isBusy(), whether open() succeeds on it, whether the device
\* behind it passes identify(), and the bytes queued on it when it is opened.
\* A port that cannot be opened has no device and no bytes to tell apart.
PortDesc ==
    {d \in [busy : BOOLEAN, opens : BOOLEAN, ident : BOOLEAN, stale : {<<>>, <<120>>}] :
        ~d.opens => (~d.ident /\ d.stale = <<>>)}

Ev(name, i) == [ev |-> name, port |-> i]

\* QSerialPort.open(): fails on a port that is already open or cannot be opened
OpenPort(s, d, i) ==
    IF ~s.isOpen /\ d.opens
    THEN [s EXCEPT !.isOpen = TRUE, !.avail = d.stale,
                   !.log = Append(@, Ev("open", i)), !.ok = TRUE]
    ELSE [s EXCEPT !.log = Append(@, Ev("openFailed", i)), !.ok = FALSE]

\* a close() that releases nothing
ClosePortNoRelease(s) == s

\* QSerialPort.close(): releases the port and drops its read buffer; on a port
\* that is not open it changes nothing
ClosePort(s) ==
    IF s.isOpen
    THEN [s EXCEPT !.isOpen = FALSE, !.avail = <<>>, !.log = Append(@, Ev("close", s.port))]
    ELSE s

\* a setup() that leaves the queued bytes where they are
FlushStaleNothing(s) == s

\* lines 114-116: stale bytes are read and dropped
FlushStale(s) ==
    IF s.avail # <<>>
    THEN [s EXCEPT !.avail = <<>>, !.log = Append(@, Ev("flush", s.port))]
    ELSE s

\* identify() without the close() of line 120
IdentifyNoClose(s, d) ==
    [s EXCEPT !.log = Append(@, Ev("identify", s.port)), !.ok = d.ident]

\* lines 117-122: identify(), and close() when it fails
Identify(s, d) ==
    LET t == [s EXCEPT !.log = Append(@, Ev("identify", s.port))]
    IN  IF d.ident THEN [t EXCEPT !.ok = TRUE]
        ELSE [ClosePort(t) EXCEPT !.ok = FALSE]

\* setup() without the isBusy() test of lines 103-105
SetupIgnoreBusy(s, cat, i) ==
    IF i = 0 THEN [s EXCEPT !.ok = FALSE]
    ELSE LET o == OpenPort([s EXCEPT !.port = i], cat[i], i)
         IN  IF ~o.ok THEN o ELSE Identify(FlushStale(o), cat[i])

\* setup(portinfo); i = 0 is portinfo None.  s.ok is the value returned.
Setup(s, cat, i) ==
    IF i = 0 THEN [s EXCEPT !.ok = FALSE]
    ELSE IF cat[i].busy THEN [s EXCEPT !.log = Append(@, Ev("busy", i)), !.ok = FALSE]
    ELSE LET o == OpenPort([s EXCEPT !.port = i], cat[i], i)
         IN  IF ~o.ok THEN o ELSE Identify(FlushStale(o), cat[i])

RECURSIVE FindFromNoBreak(_, _, _)
\* the loop of find() without the break of line 140
FindFromNoBreak(s, cat, i) ==
    IF i > Len(cat) THEN s
    ELSE FindFromNoBreak(Setup(s, cat, i), cat, i + 1)

RECURSIVE FindFrom(_, _, _)
\* lines 137-140: the loop of find() from descriptor i on
FindFrom(s, cat, i) ==
    IF i > Len(cat) THEN s
    ELSE LET r == Setup(s, cat, i)
         IN  IF r.ok THEN r ELSE FindFrom(r, cat, i + 1)

\* find()
Find(s, cat) == IF Len(cat) < 1 THEN s ELSE FindFrom(s, cat, 1)

----------------------------------------------------------------------------
(* The sync property *)

\* readyRead.disconnect(): drops every connection (raises, and is caught, if none)
Disconnect(n) == 0

\* readyRead.connect(self.receive)
Connect(n) == n + 1

\* the setter without the disconnect() of lines 245-248
SyncSetterNoDisconnect(state, n) == IF ~state THEN Connect(n) ELSE n

\* the setter with the connect() of line 250 done in either mode
SyncSetterAlwaysConnect(state, n) == Connect(Disconnect(n))

\* the setter of sync: the number of connections it leaves
SyncSetter(state, n) == IF ~state THEN Connect(Disconnect(n)) ELSE Disconnect(n)

----------------------------------------------------------------------------
(* Channel operations recorded in trace *)

Op(name, who, ok, data) == [op |-> name, by |-> who, ok |-> ok, data |-> data]

Step(name, text, who) == [name |-> name, arg |-> text, by |-> who]

\* the bytes the readAll() calls of `who` returned, in order
RECURSIVE ReadsBy(_, _)
ReadsBy(tr, who) ==
    IF tr = <<>> THEN <<>>
    ELSE LET h == Head(tr)
         IN  (IF h.op = "readAll" /\ h.by = who THEN h.data ELSE <<>>)
                 \o ReadsBy(Tail(tr), who)

----------------------------------------------------------------------------
(* receive(): the slot of readyRead *)

\* the bytes of buf before the first pat (all of buf if it holds none)
UpToFirst(buf, pat) ==
    LET at == {i \in 0..(Len(buf) - Len(pat)) : SubSeq(buf, i + 1, i + Len(pat)) = pat}
    IN  IF at = {} THEN buf
        ELSE SubSeq(buf, 1, CHOOSE i \in at : \A j \in at : i <= j)

\* receive() emitting only what precedes the first eol
ReceiveFirstOnly(r, e) ==
    LET b == r.buffer \o r.avail
        t == Append(r.trace, Op("readAll", "receive", TRUE, r.avail))
    IN  IF Contains(b, Encode(e))
        THEN [r EXCEPT !.buffer = <<>>, !.avail = <<>>, !.trace = t,
                       !.emitted = Append(@, Decode(Trimmed(UpToFirst(b, Encode(e)))))]
        ELSE [r EXCEPT !.buffer = b, !.avail = <<>>, !.trace = t]

\* One run of receive() on r = [buffer, avail, trace, emitted, raised]
Receive(r, e) ==
    LET b == r.buffer \o r.avail
        t == Append(r.trace, Op("readAll", "receive", TRUE, r.avail))
    IN  IF Contains(b, Encode(e))
        THEN IF DecodeOk(Trimmed(b))
             THEN [r EXCEPT !.buffer = <<>>, !.avail = <<>>, !.trace = t,
                            !.emitted = Append(@, Decode(Trimmed(b)))]
             ELSE [r EXCEPT !.buffer = b, !.avail = <<>>, !.trace = t, !.raised = TRUE]
        ELSE [r EXCEPT !.buffer = b, !.avail = <<>>, !.trace = t]

RECURSIVE EmitReadyRead(_, _, _)
\* readyRead is emitted: every connected slot runs, one after the other
EmitReadyRead(r, e, n) ==
    IF n = 0 THEN r ELSE EmitReadyRead(Receive(r, e), e, n - 1)

----------------------------------------------------------------------------
(* sendData(), getData(), handshake() *)

\* sendData writing the text without the eol
SendOpsNoEol(text, e, isSync, ok) ==
    <<Op("write", "sendData", TRUE, Encode(text))>>
        \o (IF isSync THEN <<Op("waitForBytesWritten", "sendData", ok, <<>>)>> ELSE <<>>)

\* sendData waiting for the write in either mode
SendOpsAlwaysWait(text, e, isSync, ok) ==
    <<Op("write", "sendData", TRUE, Encode(text \o e)),
      Op("waitForBytesWritten", "sendData", ok, <<>>)>>

\* lines 164-170: the channel operations of sendData(text); ok is the outcome
\* of waitForBytesWritten, which only the synchronous mode calls
SendOps(text, e, isSync, ok) ==
    <<Op("write", "sendData", TRUE, Encode(text \o e))>>
        \o (IF isSync THEN <<Op("waitForBytesWritten", "sendData", ok, <<>>)>> ELSE <<>>)

\* the end of getData without the clear() of line 206
FinishNoClear(buf) ==
    IF DecodeOk(Trimmed(buf))
    THEN [buffer |-> buf, ret |-> Str(Decode(Trimmed(buf)))]
    ELSE [buffer |-> buf, ret |-> Raised("UnicodeDecodeError")]

\* lines 204-207: decode, clear, return.  The result is [buffer, ret].
Finish(buf) ==
    IF DecodeOk(Trimmed(buf))
    THEN [buffer |-> <<>>, ret |-> Str(Decode(Trimmed(buf)))]
    ELSE [buffer |-> buf, ret |-> Raised("UnicodeDecodeError")]

\* handshake without the check of lines 230-232
HandshakeNoModeCheck(isSync) == [write |-> TRUE, enter |-> TRUE]

\* what handshake(text) does before it returns or enters getData:
\* [write, enter] says whether it writes and whether it goes on to getData
HandshakePlan(isSync) == [write |-> isSync, enter |-> isSync]

----------------------------------------------------------------------------
(* __init__ *)

\* __init__ without the check of lines 94-95
CtorNoCheck(open) == "idle"

\* lines 94-95: ValueError unless the port is open
CtorOutcome(open) == IF open THEN "idle" ELSE "failed"

Construct ==
    /\ pc = "new"
    /\ LET s0 == [isOpen |-> isOpen, port |-> port, avail |-> avail, log |-> probeLog,
                  ok |-> FALSE]
           s1 == IF portArg = 0 THEN Find(s0, catalog) ELSE Setup(s0, catalog, portArg)
       IN  /\ isOpen' = s1.isOpen
           /\ port' = s1.port
           /\ avail' = s1.avail
           /\ probeLog' = s1.log
           /\ pc' = CtorOutcome(s1.isOpen)
           /\ ret' = IF CtorOutcome(s1.isOpen) = "idle" THEN NoValue
                      ELSE Raised("ValueError")
    /\ bindings' = SyncSetter(sync, bindings)
    /\ op' = Step("__init__", <<>>, "")
    /\ trace' = <<>>
    /\ emitted' = <<>>
    /\ UNCHANGED <<catalog, portArg, eol, sync, buffer, wire, entry>>

----------------------------------------------------------------------------
(* The steps of an open session *)

\* the texts handed to sendData and handshake: the empty text and every
\* text of one character
Texts == {<<>>} \cup {<<c>> : c \in Char}

\* waitForBytesWritten succeeds or times out; the asynchronous mode does not call it
WriteOutcomes(isSync) == IF isSync THEN BOOLEAN ELSE {TRUE}

Held == Len(wire) + Len(avail) + Len(buffer)

\* the call in progress has not waited for bytes yet
NoReadYet == \A i \in 1..Len(trace) : trace[i].op # "waitForReadyRead"

\* the device sends one more byte, between two calls or in answer to a call
\* before the call's first read returns; what it sent arrives in any number of
\* chunks.  op, trace, entry, emitted and ret describe the latest step, or the
\* call in progress, so a byte sent between two calls resets them.
PeerSend ==
    /\ pc \in {"idle", "getData"}
    /\ isOpen
    /\ Held < MaxBytes
    /\ pc = "getData" => NoReadYet
    /\ \E b \in DeviceBytes : wire' = Append(wire, b)
    /\ IF pc = "idle"
       THEN /\ op' = Step("peer", <<>>, "")
            /\ trace' = <<>>
            /\ entry' = <<>>
            /\ emitted' = <<>>
            /\ ret' = NoValue
       ELSE UNCHANGED <<op, trace, entry, emitted, ret>>
    /\ UNCHANGED <<pc, catalog, portArg, eol, sync, bindings, isOpen, port, buffer,
                   avail, probeLog>>

\* the event loop runs: k bytes arrive and readyRead is emitted
Arrive ==
    /\ pc = "idle"
    /\ isOpen
    /\ \E k \in 1..Len(wire) :
         LET r0 == [buffer |-> buffer, avail |-> avail \o SubSeq(wire, 1, k),
                    trace |-> <<>>, emitted |-> <<>>, raised |-> FALSE]
             r  == EmitReadyRead(r0, eol, bindings)
         IN  /\ wire' = SubSeq(wire, k + 1, Len(wire))
             /\ buffer' = r.buffer
             /\ avail' = r.avail
             /\ trace' = r.trace
             /\ emitted' = r.emitted
             /\ ret' = IF r.raised THEN Raised("UnicodeDecodeError") ELSE NoValue
             \* an exception that leaves a slot ends the process or is only
             \* reported, depending on the PyQt5 version and the except hook
             /\ pc' \in (IF r.raised THEN {"idle", "aborted"} ELSE {"idle"})
    /\ op' = Step("readyRead", <<>>, "")
    /\ entry' = buffer
    /\ UNCHANGED <<catalog, portArg, eol, sync, bindings, isOpen, port, probeLog>>

\* a setter of sync that also empties self.buffer
SetModeClearsBuffer ==
    /\ pc = "idle"
    /\ isOpen
    /\ \E state \in BOOLEAN :
         /\ sync' = state
         /\ bindings' = SyncSetter(state, bindings)
         /\ op' = Step("sync", <<>>, "")
    /\ buffer' = <<>>
    /\ trace' = <<>>
    /\ emitted' = <<>>
    /\ ret' = NoValue
    /\ entry' = <<>>
    /\ UNCHANGED <<pc, catalog, portArg, eol, isOpen, port, avail, wire, probeLog>>

\* self.sync = state
SetMode ==
    /\ pc = "idle"
    /\ isOpen
    /\ \E state \in BOOLEAN :
         /\ sync' = state
         /\ bindings' = SyncSetter(state, bindings)
         /\ op' = Step("sync", <<>>, "")
    /\ trace' = <<>>
    /\ emitted' = <<>>
    /\ ret' = NoValue
    /\ entry' = <<>>
    /\ UNCHANGED <<pc, catalog, portArg, eol, isOpen, port, buffer, avail, wire,
                   probeLog>>

SendData ==
    /\ pc = "idle"
    /\ isOpen
    /\ \E text \in Texts, ok \in WriteOutcomes(sync) :
         /\ trace' = SendOps(text, eol, sync, ok)
         /\ op' = Step("sendData", text, "")
    /\ emitted' = <<>>
    /\ ret' = NoValue
    /\ entry' = <<>>
    /\ UNCHANGED <<pc, catalog, portArg, eol, sync, bindings, isOpen, port, buffer,
                   avail, wire, probeLog>>

\* getData() is entered
GetDataCall ==
    /\ pc = "idle"
    /\ isOpen
    /\ pc' = "getData"
    /\ op' = Step("getData", <<>>, "getData")
    /\ entry' = buffer
    /\ trace' = <<>>
    /\ emitted' = <<>>
    /\ ret' = NoValue
    /\ UNCHANGED <<catalog, portArg, eol, sync, bindings, isOpen, port, buffer, avail,
                   wire, probeLog>>

\* handshake(text)
Handshake ==
    /\ pc = "idle"
    /\ isOpen
    /\ \E text \in Texts, ok \in WriteOutcomes(sync) :
         LET plan == HandshakePlan(sync)
         IN  /\ op' = Step("handshake", text, IF plan.enter THEN "handshake" ELSE "")
             /\ trace' = IF plan.write THEN SendOps(text, eol, sync, ok) ELSE <<>>
             /\ pc' = IF plan.enter THEN "getData" ELSE "idle"
             /\ ret' = IF plan.enter THEN NoValue ELSE Str(<<>>)
             /\ entry' = IF plan.enter THEN buffer ELSE <<>>
    /\ emitted' = <<>>
    /\ UNCHANGED <<catalog, portArg, eol, sync, bindings, isOpen, port, buffer, avail,
                   wire, probeLog>>

\* line 198: the loop of getData goes on while the buffer holds no eol
Looping == pc = "getData" /\ ~Contains(buffer, Encode(eol))

\* lines 199-200: waitForReadyRead succeeds on k new bytes (readyRead is emitted
\* inside it), then readAll
GetDataRead ==
    /\ Looping
    /\ \E k \in 1..Len(wire) :
         LET r0 == [buffer |-> buffer, avail |-> avail \o SubSeq(wire, 1, k),
                    trace |-> Append(trace, Op("waitForReadyRead", op.by, TRUE, <<>>)),
                    emitted |-> emitted, raised |-> FALSE]
             r  == EmitReadyRead(r0, eol, bindings)
         IN  /\ wire' = SubSeq(wire, k + 1, Len(wire))
             /\ buffer' = r.buffer \o r.avail
             /\ avail' = <<>>
             /\ trace' = Append(r.trace, Op("readAll", op.by, TRUE, r.avail))
             /\ emitted' = r.emitted
             /\ pc' \in (IF r.raised THEN {"getData", "aborted"} ELSE {"getData"})
    /\ UNCHANGED <<catalog, portArg, eol, sync, bindings, isOpen, port, probeLog, op, entry, ret>>

\* a timed-out read after which the loop goes on
GetDataTimeoutRetry ==
    /\ pc = "getData" /\ ~Contains(buffer, Encode(eol))
    /\ Len(trace) < MaxBytes + 4
    /\ trace' = Append(trace, Op("waitForReadyRead", op.by, FALSE, <<>>))
    /\ UNCHANGED <<pc, catalog, portArg, eol, sync, bindings, isOpen, port, buffer,
                   avail, wire, probeLog, op, entry, emitted, ret>>

\* lines 201-207: waitForReadyRead times out; the loop ends and getData returns
GetDataTimeout ==
    /\ Looping
    /\ trace' = Append(trace, Op("waitForReadyRead", op.by, FALSE, <<>>))
    /\ LET f == Finish(buffer) IN buffer' = f.buffer /\ ret' = f.ret
    /\ pc' = "idle"
    /\ UNCHANGED <<catalog, portArg, eol, sync, bindings, isOpen, port, avail, wire,
                   probeLog, op, entry, emitted>>

\* lines 198, 204-207: the buffer holds an eol; getData returns
GetDataReturn ==
    /\ pc = "getData"
    /\ Contains(buffer, Encode(eol))
    /\ LET f == Finish(buffer) IN buffer' = f.buffer /\ ret' = f.ret
    /\ pc' = "idle"
    /\ UNCHANGED <<catalog, portArg, eol, sync, bindings, isOpen, port, avail, wire,
                   probeLog, op, trace, entry, emitted>>

\* close()
Close ==
    /\ pc \in {"idle", "failed"}
    /\ LET s == ClosePort([isOpen |-> isOpen, port |-> port, avail |-> avail,
                           log |-> probeLog, ok |-> FALSE])
       IN  /\ isOpen' = s.isOpen
           /\ avail' = s.avail
           /\ probeLog' = s.log
    /\ op' = Step("close", <<>>, "")
    /\ trace' = <<>>
    /\ emitted' = <<>>
    /\ ret' = NoValue
    /\ entry' = <<>>
    /\ UNCHANGED <<pc, catalog, portArg, eol, sync, bindings, port, buffer, wire>>

----------------------------------------------------------------------------
\* the catalogs of the session specification
SessionCatalogs ==
    { <<>>,
      << [busy |-> FALSE, opens |-> TRUE, ident |-> FALSE, stale |-> <<120>>],
         [busy |-> FALSE, opens |-> TRUE, ident |-> TRUE, stale |-> <<120>>] >> }

Init ==
    /\ pc = "new"
    /\ catalog \in SessionCatalogs
    /\ portArg = 0
    /\ eol \in {<<"\r">>, <<";">>}
    /\ sync \in BOOLEAN
    /\ bindings = 0
    /\ isOpen = FALSE
    /\ port = 0
    /\ buffer = <<>>
    /\ avail = <<>>
    /\ wire = <<>>
    /\ probeLog = <<>>
    /\ op = Step("", <<>>, "")
    /\ trace = <<>>
    /\ entry = <<>>
    /\ emitted = <<>>
    /\ ret = NoValue

Next ==
    \/ Construct
    \/ PeerSend
    \/ Arrive
    \/ SetMode
    \/ SendData
    \/ GetDataCall
    \/ Handshake
    \/ GetDataRead
    \/ GetDataTimeout
    \/ GetDataReturn
    \/ Close

Spec == Init /\ [][Next]_vars

----------------------------------------------------------------------------
(* Discovery over every catalog of at most MaxPorts descriptors *)

Catalogs == UNION {[1..n -> PortDesc] : n \in 0..MaxPorts}

InitFind ==
    /\ pc = "new"
    /\ catalog \in Catalogs
    /\ portArg \in 0..Len(catalog)
    /\ eol \in {<<"\r">>, <<";">>}
    /\ sync \in BOOLEAN
    /\ bindings = 0
    /\ isOpen = FALSE
    /\ port = 0
    /\ buffer = <<>>
    /\ avail = <<>>
    /\ wire = <<>>
    /\ probeLog = <<>>
    /\ op = Step("", <<>>, "")
    /\ trace = <<>>
    /\ entry = <<>>
    /\ emitted = <<>>
    /\ ret = NoValue

NextFind ==
    \/ Construct
    \/ Close

SpecFind == InitFind /\ [][NextFind]_vars

----------------------------------------------------------------------------
(* Claims about discovery, checked under SpecFind *)

\* descriptor d is one setup() succeeds on
Good(d) == ~d.busy /\ d.opens /\ d.ident

GoodPorts == {i \in 1..Len(catalog) : Good(catalog[i])}

FirstGood == CHOOSE i \in GoodPorts : \A j \in GoodPorts : i <= j

Count(log, name, i) == Cardinality({k \in 1..Len(log) : log[k] = Ev(name, i)})

\* port i was opened more often than it was closed
LeftOpen(i) == Count(probeLog, "open", i) > Count(probeLog, "close", i)

\* __init__ has just run find()
Discovered == op.name = "__init__" /\ portArg = 0

\* C1: after discovery over a catalog with a descriptor that is not busy, opens
\* and identifies, the session is open on the first such descriptor in catalog
\* order, that descriptor is the only one left open, and every other descriptor
\* that was opened has been closed again.
C1_FirstMatchKept ==
    (Discovered /\ GoodPorts # {}) =>
        /\ isOpen
        /\ port = FirstGood
        /\ \A i \in 1..Len(catalog) : LeftOpen(i) <=> i = FirstGood

\* three descriptors, the first opens but does not identify, only the second is
\* good, and the session is open on the second
C1_Witness ==
    /\ Discovered
    /\ Len(catalog) = 3
    /\ GoodPorts = {2}
    /\ ~catalog[1].busy /\ catalog[1].opens
    /\ ~catalog[3].busy /\ catalog[3].opens
    /\ isOpen /\ port = 2
    /\ Count(probeLog, "close", 1) = 1

\* C2: when the catalog is empty or exhausted without a descriptor that opens
\* and identifies, the session is closed and __init__ raises; and __init__
\* completes without raising exactly when the port is open.
C2_NotFoundRaises ==
    op.name = "__init__" =>
        /\ (portArg = 0 /\ GoodPorts = {}) => (~isOpen /\ pc = "failed")
        /\ pc = "failed" <=> ~isOpen
        /\ pc = "failed" <=> ret = Raised("ValueError")
        /\ pc = "idle" <=> isOpen

\* a catalog exhausted after a port was opened, failed to identify and was closed
C2_Witness ==
    /\ Discovered
    /\ pc = "failed"
    /\ ~isOpen
    /\ Len(catalog) >= 2
    /\ \E i \in 1..Len(catalog) : Count(probeLog, "close", i) = 1
    /\ \E i \in 1..Len(catalog) : catalog[i].busy

----------------------------------------------------------------------------
(* Claims about an open session, checked under Spec *)

EolBytes == Encode(eol)

\* getData has returned (or raised), called directly or by handshake
GotData == pc = "idle" /\ op.by # ""

\* a getData call is in progress or is the latest step
InGetData == op.by # ""

\* what the getData of the latest call gathered in self.buffer when no slot
\* is connected: the buffer at entry and the bytes of its readAll calls
Raw == entry \o ReadsBy(trace, op.by)

\* what the latest run of receive found in self.buffer
RawReceived == entry \o ReadsBy(trace, "receive")

LastIsTimeout ==
    /\ trace # <<>>
    /\ trace[Len(trace)].op = "waitForReadyRead"
    /\ ~trace[Len(trace)].ok

\* the positions of raw at which an eol ends
DelimEnds(raw) ==
    {i \in Len(EolBytes)..Len(raw) : SubSeq(raw, i - Len(EolBytes) + 1, i) = EolBytes}

\* raw is two eol-terminated messages, one after the other
TwoMessages(raw) == Cardinality(DelimEnds(raw)) = 2 /\ Len(raw) \in DelimEnds(raw)

\* C3 (as claimed): in synchronous mode, for every eol and every text t without
\* the eol, when sendData(t) is followed by a getData that reads the echo
\* t + eol into an empty buffer, getData returns t trimmed of surrounding
\* whitespace, and the result holds no eol.
C3_EchoReturnsText ==
    \A t \in Texts :
        ( /\ GotData /\ sync
          /\ op.name = "handshake" /\ op.arg = t
          /\ ~Contains(Encode(t), EolBytes)
          /\ entry = <<>>
          /\ ReadsBy(trace, "handshake") = Encode(t \o eol) )
        => /\ ret = Str(Decode(Trimmed(Encode(t))))
           /\ ~Contains(Encode(ret.val), EolBytes)

\* the latest step extracted a message from a buffer holding two messages
ReceiveExtractedTwo ==
    op.name = "readyRead" /\ emitted # <<>> /\ TwoMessages(RawReceived)

GetDataExtractedTwo ==
    GotData /\ sync /\ ret.kind = "str" /\ TwoMessages(Raw)

\* C4 (as claimed): an extraction from a buffer of two eol-terminated messages
\* returns the content of the first message only.
C4_OnlyFirstMessage ==
    /\ ReceiveExtractedTwo =>
           emitted[1] = Decode(Trimmed(UpToFirst(RawReceived, EolBytes)))
    /\ GetDataExtractedTwo =>
           ret.val = Decode(Trimmed(UpToFirst(Raw, EolBytes)))

\* C4 (amended): an extraction from a buffer of two eol-terminated messages
\* returns, as one payload, the whole buffer trimmed at its two ends (both
\* messages and the eol between them) and leaves the buffer empty.
C4_WholeBufferReturned ==
    /\ ReceiveExtractedTwo =>
           /\ emitted = <<Decode(Trimmed(RawReceived))>>
           /\ buffer = <<>>
    /\ GetDataExtractedTwo =>
           /\ ret.val = Decode(Trimmed(Raw))
           /\ buffer = <<>>

\* receive emitted one payload that holds the second message, a, and both eols
C4_Witness ==
    /\ ReceiveExtractedTwo
    /\ buffer = <<>>
    /\ emitted = << <<";", "a", ";">> >>

\* C5: handshake called in asynchronous mode returns the empty string, issues
\* no write and no read, and leaves the buffer and the channel unchanged.
C5_AsyncHandshakeNoIO ==
    [][ (pc = "idle" /\ ~sync /\ op'.name = "handshake") =>
            /\ ret' = Str(<<>>)
            /\ trace' = <<>>
            /\ pc' = "idle"
            /\ UNCHANGED <<buffer, avail, wire, isOpen, port, sync, bindings>> ]_vars

\* handshake has returned in asynchronous mode with bytes buffered and in flight
C5_Witness ==
    /\ pc = "idle" /\ ~sync /\ op.name = "handshake"
    /\ ret = Str(<<>>)
    /\ buffer # <<>>
    /\ wire # <<>>

\* C6: after every sequence of mode changes receive is connected to readyRead
\* exactly once in asynchronous mode and not at all in synchronous mode, and
\* one notification delivers dataReady at most once.
C6_OneBinding ==
    pc # "new" =>
        /\ bindings = (IF sync THEN 0 ELSE 1)
        /\ op.name = "readyRead" => Len(emitted) <= 1

\* the mode was just set to asynchronous in a session that has already
\* received bytes in asynchronous mode
C6_Witness ==
    /\ op.name = "sync" /\ ~sync
    /\ bindings = 1
    /\ buffer # <<>> /\ DecodeOk(buffer)

\* C7: dataReady is emitted only in asynchronous mode, a run of receive emits
\* at most once, and there are never more emissions than eols received.
C7_EmitOnlyAsync ==
    /\ emitted # <<>> => ~sync
    /\ op.name = "readyRead" => Len(emitted) <= 1
    /\ Len(emitted) <= Cardinality(DelimEnds(RawReceived))

C7_Witness ==
    /\ op.name = "readyRead" /\ ~sync
    /\ emitted = << <<"a">> >>
    /\ entry # <<>>

\* C8: getData issues a blocking read only while the buffer holds no eol; a
\* read that succeeds is followed by readAll and the loop goes on; a read that
\* times out is the last operation of the call; and what getData then returns
\* is the decoded, trimmed buffer, complete or not.
C8_StopsAtFirstTimeout ==
    InGetData =>
        /\ \A i \in 1..Len(trace) :
             trace[i].op = "waitForReadyRead" =>
                /\ ~trace[i].ok => (i = Len(trace) /\ pc # "getData")
                /\ trace[i].ok =>
                     \E j \in (i + 1)..Len(trace) :
                        /\ trace[j] = Op("readAll", op.by, TRUE, trace[j].data)
                        /\ \A k \in (i + 1)..(j - 1) : trace[k].by = "receive"
                /\ sync => ~Contains(entry \o ReadsBy(SubSeq(trace, 1, i - 1), op.by),
                                     EolBytes)
        /\ (sync /\ pc = "getData") => buffer = Raw
        /\ (sync /\ pc = "idle") =>
             /\ LastIsTimeout \/ Contains(Raw, EolBytes)
             /\ DecodeOk(Trimmed(Raw)) <=> ret.kind = "str"
             /\ ret.kind = "str" => ret.val = Decode(Trimmed(Raw))

\* getData returned an incomplete message after two reads and a timeout
C8_Witness ==
    /\ GotData /\ sync /\ op.name = "getData"
    /\ Len(trace) = 5
    /\ LastIsTimeout
    /\ ~Contains(Raw, EolBytes)
    /\ ret.kind = "str" /\ ret.val # <<>>

\* C9 (as claimed): after close() the session is closed and the buffer is empty.
C9_CloseClearsBuffer == op.name = "close" => (~isOpen /\ buffer = <<>>)

\* C9 (amended): close() releases the channel and leaves self.buffer as it is;
\* on a session that is not open, never opened or already closed, it changes
\* nothing.
C9_CloseReleasesOnly ==
    [][ op'.name = "close" =>
            /\ ~isOpen'
            /\ avail' = <<>>
            /\ buffer' = buffer
            /\ ~isOpen => UNCHANGED <<pc, isOpen, port, buffer, avail, wire, sync,
                                      bindings, probeLog>> ]_vars

\* a closed session whose buffer still holds bytes
C9_Witness ==
    /\ op.name = "close"
    /\ ~isOpen
    /\ pc = "idle"
    /\ buffer # <<>>

\* handshake went on to getData, which only the synchronous mode does
SyncHandshake == op.name = "handshake" /\ op.by = "handshake"

\* C10: a synchronous handshake(text) issues exactly one write, of text + eol,
\* as its first channel operation, waits for it, then only waits for and reads
\* bytes as getData does, and returns what getData returns.
C10_HandshakeIsSendThenGet ==
    (sync /\ op.name = "handshake") =>
        /\ SyncHandshake
        /\ Len(trace) >= 2
        /\ trace[1] = Op("write", "sendData", TRUE, Encode(op.arg \o eol))
        /\ trace[2].op = "waitForBytesWritten"
        /\ \A i \in 3..Len(trace) :
              /\ trace[i].op \in {"waitForReadyRead", "readAll"}
              /\ trace[i].by = "handshake"
        /\ Len(trace) >= 3 => trace[3].op = "waitForReadyRead"
        /\ pc = "getData" => ret = NoValue
        /\ pc = "idle" =>
              /\ DecodeOk(Trimmed(Raw)) <=> ret.kind = "str"
              /\ ret.kind = "str" => ret.val = Decode(Trimmed(Raw))

\* a handshake that wrote, read the answer in two chunks and returned it
C10_Witness ==
    /\ pc = "idle" /\ SyncHandshake
    /\ Len(trace) = 6
    /\ op.arg = <<"a">>
    /\ ret.kind = "str" /\ ret.val # <<>>

\* a decoding failed in the latest step
DecodeFailed == ret = Raised("UnicodeDecodeError")

\* C11 (as claimed): after a decoding failure in receive or in getData the
\* malformed message is dropped, the buffer is empty and the session goes on.
C11_DecodeErrorDropsMessage ==
    DecodeFailed => (buffer = <<>> /\ pc = "idle")

\* the latest step was a run of receive in asynchronous mode
Notified == op.name = "readyRead" /\ ~sync

\* C12 (as claimed): a notification in asynchronous mode appends the new bytes
\* to the buffer; a message is emitted and the buffer reset to empty if and
\* only if the buffer then holds the eol; otherwise nothing is emitted and the
\* buffer keeps every byte gathered so far.
C12_EmitIffDelimiter ==
    Notified =>
        /\ Contains(RawReceived, EolBytes) <=> (Len(emitted) = 1 /\ buffer = <<>>)
        /\ ~Contains(RawReceived, EolBytes) => (emitted = <<>> /\ buffer = RawReceived)

\* C13 (as claimed): when a message arrives in several notifications with the
\* eol only in the last chunk, nothing is emitted before that chunk, and with
\* it exactly one dataReady is emitted, whose payload is the chunks gathered
\* since the last reset, in order, trimmed.
C13_SplitMessageReassembled ==
    Notified =>
        /\ ~Contains(RawReceived, EolBytes) => (emitted = <<>> /\ buffer = RawReceived)
        /\ (entry # <<>> /\ ~Contains(entry, EolBytes) /\ Contains(RawReceived, EolBytes))
              => emitted = <<Decode(Trimmed(RawReceived))>>

----------------------------------------------------------------------------
(* Claims about the order of discovery, checked under SpecFind *)

\* the events with which setup() starts on a descriptor
Tries == {"busy", "open", "openFailed"}

TriesOf(i) == {k \in 1..Len(probeLog) : probeLog[k].port = i /\ probeLog[k].ev \in Tries}

\* the port held open after the first k events
OpenAfter(k) ==
    {i \in 1..Len(catalog) :
        Count(SubSeq(probeLog, 1, k), "open", i) > Count(SubSeq(probeLog, 1, k), "close", i)}

\* C14: discovery probes the descriptors one after the other in catalog order,
\* with no port open when the next is tried, tries each descriptor at most
\* once, tries every descriptor up to the first success, and neither opens nor
\* identifies any descriptor after it.
C14_SequentialFirstMatch ==
    Discovered =>
        /\ \A k \in 1..(Len(probeLog) - 1) : probeLog[k].port <= probeLog[k + 1].port
        /\ \A k \in 1..Len(probeLog) :
              probeLog[k].ev \in Tries => OpenAfter(k - 1) = {}
        /\ \A i \in 1..Len(catalog) :
              /\ Cardinality(TriesOf(i)) <= 1
              /\ (GoodPorts = {} \/ i <= FirstGood) => Cardinality(TriesOf(i)) = 1
        /\ GoodPorts # {} =>
              \A k \in 1..Len(probeLog) : probeLog[k].port <= FirstGood

\* three good descriptors: the first is kept, the others are never touched
C14_Witness ==
    /\ Discovered
    /\ Len(catalog) = 3
    /\ GoodPorts = {2, 3}
    /\ ~catalog[1].busy /\ catalog[1].opens
    /\ isOpen /\ port = 2
    /\ TriesOf(1) # {} /\ TriesOf(2) # {} /\ TriesOf(3) = {}

\* event k of the log is the identification check of a port that was just
\* opened and, when bytes were queued on it, flushed
CheckedAfterFlush(k) ==
    LET i == probeLog[k].port
    IN  IF catalog[i].stale = <<>>
        THEN k > 1 /\ probeLog[k - 1] = Ev("open", i)
        ELSE k > 2 /\ probeLog[k - 1] = Ev("flush", i) /\ probeLog[k - 2] = Ev("open", i)

\* C15: every port that was opened is checked exactly once, right after the
\* open and the flush of its stale bytes; a port is acquired only after its
\* check passed; a port whose check fails is closed at once; a busy or
\* unopenable port is never checked.
C15_IdentifyOncePerCandidate ==
    /\ \A i \in 1..Len(catalog) :
          /\ Count(probeLog, "identify", i) = Count(probeLog, "open", i)
          /\ Count(probeLog, "identify", i) <= 1
          /\ (catalog[i].busy \/ ~catalog[i].opens) => Count(probeLog, "identify", i) = 0
    /\ \A k \in 1..Len(probeLog) :
          probeLog[k].ev = "identify" =>
              /\ CheckedAfterFlush(k)
              /\ ~catalog[probeLog[k].port].ident =>
                    (k < Len(probeLog) /\ probeLog[k + 1] = Ev("close", probeLog[k].port))
    /\ (op.name = "__init__" /\ isOpen) =>
          /\ pc = "idle" /\ port \in 1..Len(catalog) /\ catalog[port].ident
          /\ probeLog[Len(probeLog)] = Ev("identify", port)
    /\ (op.name = "__init__" /\ ~isOpen) => pc = "failed"

\* a busy port is skipped, a port that fails its check is flushed, checked and
\* closed, and the third port is flushed, checked and acquired
C15_Witness ==
    /\ op.name = "__init__" /\ portArg = 0 /\ Len(catalog) = 3
    /\ catalog[1].busy /\ catalog[1].opens /\ catalog[1].ident
    /\ probeLog = <<Ev("busy", 1),
                    Ev("open", 2), Ev("flush", 2), Ev("identify", 2), Ev("close", 2),
                    Ev("open", 3), Ev("flush", 3), Ev("identify", 3)>>
    /\ isOpen /\ port = 3

----------------------------------------------------------------------------
(* Stale bytes, checked under Spec *)

\* the bytes queued on a port at open time are <<120>>, "x" once decoded:
\* a value the device never sends and no text handed to sendData holds
HasStale(bytes) == \E k \in 1..Len(bytes) : bytes[k] = 120

HasStaleText(text) == \E k \in 1..Len(text) : text[k] = "x"

\* C16: the bytes queued on the port at open time are drained by setup (the
\* drain is logged) and appear nowhere afterwards: not in the port's read
\* queue, not in self.buffer, not in what a readAll() returns, not in a
\* getData result and not in a dataReady emission.
C16_StaleBytesNeverSurface ==
    pc \in {"idle", "getData", "aborted"} =>
        /\ catalog[port].stale # <<>> => Count(probeLog, "flush", port) = 1
        /\ ~HasStale(avail)
        /\ ~HasStale(buffer)
        /\ \A k \in 1..Len(trace) : trace[k].op = "readAll" => ~HasStale(trace[k].data)
        /\ ret.kind = "str" => ~HasStaleText(ret.val)
        /\ \A k \in 1..Len(emitted) : ~HasStaleText(emitted[k])

\* on a port that was opened with a byte queued, getData returns a text
C16_Witness ==
    /\ GotData /\ op.name = "getData"
    /\ catalog[port].stale = <<120>>
    /\ Count(probeLog, "flush", port) = 1
    /\ ret.kind = "str" /\ ret.val # <<>>

----------------------------------------------------------------------------
(* sendData, checked under Spec *)

\* the channel operations of sendData within the latest step
SentOps == SelectSeq(trace, LAMBDA o : o.by = "sendData")

\* what sendData is expected to do with the channel: one write of the text
\* and the eol, then a wait for the write in synchronous mode only
OneWrite(text) ==
    /\ Len(SentOps) = (IF sync THEN 2 ELSE 1)
    /\ SentOps[1].op = "write" /\ SentOps[1].data = Encode(text \o eol)
    /\ sync => SentOps[2].op = "waitForBytesWritten"

\* C17: sendData(text) issues exactly one write of text followed by the eol in
\* both modes and waits for the write only in synchronous mode; whatever the
\* outcome of the wait it returns normally, with the session open and the
\* mode, the binding, the buffer and the port's queue unchanged; a synchronous
\* handshake sends in the same way and enters getData even when its write
\* timed out.
C17_SendDataOneWrite ==
    /\ [](op.name = "sendData" =>
            OneWrite(op.arg) /\ trace = SentOps /\ ret = NoValue /\ pc = "idle" /\ isOpen)
    /\ [](op.by = "handshake" =>
            OneWrite(op.arg) /\ trace[1] = SentOps[1] /\ trace[2] = SentOps[2])
    /\ [][op'.name = "sendData" =>
            UNCHANGED <<pc, sync, bindings, isOpen, port, buffer, avail, wire>>]_vars
    /\ [][(op'.by = "handshake" /\ pc = "idle") =>
            (pc' = "getData" /\ UNCHANGED <<sync, bindings, isOpen, port, buffer, avail, wire>>)]_vars

\* a synchronous sendData whose write timed out, with bytes in the buffer
C17_Witness ==
    /\ op.name = "sendData" /\ op.arg = <<"a">>
    /\ sync /\ Len(trace) = 2 /\ ~trace[2].ok
    /\ buffer # <<>>
    /\ pc = "idle" /\ isOpen

----------------------------------------------------------------------------
(* The buffer after getData, checked under Spec *)

\* getData, called directly or by handshake, has returned a text
Returned == GotData /\ ret.kind = "str"

\* C18: whenever getData returns a text, after a delimiter or after a read
\* timeout, self.buffer is empty, so a synchronous handshake that returns
\* leaves it empty; what was returned is not joined with later bytes: the
\* next call starts from an empty buffer and bytes that arrive next are alone
\* in the buffer.
C18_BufferEmptyOnReturn ==
    /\ [](Returned => buffer = <<>>)
    /\ [][Returned =>
            /\ (pc' = "getData" => entry' = <<>>)
            /\ (op'.name = "readyRead" =>
                    buffer' \in {<<>>, ReadsBy(trace', "receive")})]_vars

\* a synchronous handshake returned a partial answer after a read timeout
C18_Witness ==
    /\ Returned /\ SyncHandshake
    /\ LastIsTimeout
    /\ ~Contains(Raw, EolBytes)
    /\ ret.val # <<>>
    /\ buffer = <<>>

----------------------------------------------------------------------------
(* The mode switch and the buffer, checked under Spec *)

IsPrefix(u, v) == Len(u) <= Len(v) /\ SubSeq(v, 1, Len(u)) = u

\* a synchronous getData returned a text after starting from a buffer that
\* held bytes and no eol: bytes that receive had gathered before the switch
ReturnedAfterSwitch ==
    /\ Returned /\ sync
    /\ entry # <<>> /\ ~Contains(entry, EolBytes)

\* the latest call of getData issued no wait and no read
NoRead == \A k \in 1..Len(trace) : trace[k].op \notin {"waitForReadyRead", "readAll"}

\* C19 (as claimed): the bytes gathered without an eol in asynchronous mode
\* are the prefix of the result of the next synchronous getData.
C19_AccumulatedIsPrefix ==
    ReturnedAfterSwitch => IsPrefix(Decode(entry), ret.val)

\* C19 (amended): the setter of sync changes the mode and the binding only and
\* leaves the buffer, the port and its queues as they are; the bytes gathered
\* without an eol in asynchronous mode are the start of what the next
\* synchronous getData decodes (its result is the decoding of those bytes and
\* the bytes it read, trimmed at both ends); getData issues no wait and no
\* read when the buffer holds the eol at entry.
C19_SetModeKeepsBuffer ==
    /\ [][op'.name = "sync" =>
            UNCHANGED <<pc, isOpen, port, buffer, avail, wire>>]_vars
    /\ [][(op'.name = "getData" /\ pc = "idle") => (entry' = buffer /\ buffer' = buffer)]_vars
    /\ [](ReturnedAfterSwitch =>
            ret = Str(Decode(Trimmed(entry \o ReadsBy(trace, op.by)))))
    /\ []((InGetData /\ Contains(entry, EolBytes)) => NoRead)

\* receive gathered "\ra", the mode was switched, and getData read ";" and
\* returned "a;": the leading "\r" of the gathered bytes is trimmed away
C19_Witness ==
    /\ ReturnedAfterSwitch
    /\ op.name = "getData"
    /\ entry = <<13, 97>>
    /\ ReadsBy(trace, "getData") = <<59>>
    /\ ret = Str(<<"a", ";">>)

====
